---- MODULE Spec2Model ----
(***************************************************************************)
(* rustfetch: a one-shot system information tool.  main() calls            *)
(* gather_system_info(), which runs 24 attribute probes in a fixed order,  *)
(* and then display_info(), which prints the snapshot beside a logo.       *)
(*                                                                         *)
(* Strings are TLA+ strings (Len, \o, SubSeq, Head, Tail act on them).     *)
(* The byte 0x1b that starts an ANSI colour code is written "^[".          *)
(* u64 values are four 16-bit limbs, least significant first; f64 values   *)
(* are a class and an integer mantissa times a power of two, rounded to    *)
(* 53 bits to nearest, ties to even, as IEEE-754 binary64 does.            *)
(***************************************************************************)
EXTENDS Integers, Sequences, FiniteSets, TLC

VARIABLES target_os, profile, arch, ncpus, env, proc, file,
          pc, info, out, row, arg, ret

vars == <<target_os, profile, arch, ncpus, env, proc, file,
          pc, info, out, row, arg, ret>>

world == <<target_os, profile, arch, ncpus, env, proc, file>>

-----------------------------------------------------------------------------
(* Option<T>                                                               *)

None == [some |-> FALSE]

Some(x) == [some |-> TRUE, val |-> x]

-----------------------------------------------------------------------------
(* str                                                                     *)

Char(s, k) == SubSeq(s, k, k)

Max(a, b) == IF a >= b THEN a ELSE b

Min(a, b) == IF a <= b THEN a ELSE b

\* str::find(char): the index of the first occurrence, 0 when there is none
find(s, c) ==
    IF \E k \in 1..Len(s) : Char(s, k) = c
    THEN CHOOSE k \in 1..Len(s) :
             Char(s, k) = c /\ \A j \in 1..(k - 1) : Char(s, j) # c
    ELSE 0

\* str::contains(&str)
contains(s, pat) ==
    \E k \in 1..(Len(s) - Len(pat) + 1) : SubSeq(s, k, k + Len(pat) - 1) = pat

\* str::starts_with(&str)
starts_with(s, pat) ==
    Len(s) >= Len(pat) /\ SubSeq(s, 1, Len(pat)) = pat

\* str::split_once(char): Some((before, after)) around the first occurrence
split_once(s, c) ==
    LET k == find(s, c)
    IN  IF k = 0 THEN None
        ELSE Some(<<SubSeq(s, 1, k - 1), SubSeq(s, k + 1, Len(s))>>)

White == {" ", "\t", "\n", "\r"}

\* str::trim(): without leading and trailing whitespace
trim(s) ==
    LET keep == {k \in 1..Len(s) : Char(s, k) \notin White}
    IN  IF keep = {} THEN ""
        ELSE SubSeq(s, CHOOSE a \in keep : \A k \in keep : a <= k,
                       CHOOSE b \in keep : \A k \in keep : b >= k)

\* str::split_whitespace().next(): the first whitespace-separated word
first_word(s) ==
    LET keep == {k \in 1..Len(s) : Char(s, k) \notin White}
    IN  IF keep = {} THEN None
        ELSE LET a == CHOOSE x \in keep : \A k \in keep : x <= k
                 stop == {k \in a..Len(s) : Char(s, k) \in White}
                 b == IF stop = {} THEN Len(s)
                      ELSE (CHOOSE x \in stop : \A k \in stop : x <= k) - 1
             IN  Some(SubSeq(s, a, b))

\* str::split(['/', '\\']).last(): what follows the last separator; split
\* always yields at least one piece, so last() is never None
last_component(s) ==
    LET seps == {k \in 1..Len(s) : Char(s, k) \in {"/", "\\"}}
    IN  IF seps = {} THEN Some(s)
        ELSE Some(SubSeq(s, (CHOOSE b \in seps : \A k \in seps : b >= k) + 1,
                         Len(s)))

\* str::lines(): the pieces between "\n", each without a trailing "\r"; no
\* piece is produced after a final "\n"
RECURSIVE lines(_)
lines(s) ==
    IF s = "" THEN <<>>
    ELSE LET k == find(s, "\n")
             raw == IF k = 0 THEN s ELSE SubSeq(s, 1, k - 1)
             cut == IF k # 0 /\ Len(raw) > 0 /\ Char(raw, Len(raw)) = "\r"
                    THEN SubSeq(raw, 1, Len(raw) - 1) ELSE raw
         IN  IF k = 0 THEN <<raw>>
             ELSE <<cut>> \o lines(SubSeq(s, k + 1, Len(s)))

\* str::repeat(n)
RECURSIVE repeat(_, _)
repeat(s, n) ==
    IF n <= 0 THEN ""
    ELSE LET half == repeat(s, n \div 2)
         IN  half \o half \o (IF n % 2 = 1 THEN s ELSE "")

\* [String]::join(sep)
RECURSIVE join(_, _)
join(parts, sep) ==
    IF Len(parts) = 0 THEN ""
    ELSE IF Len(parts) = 1 THEN parts[1]
    ELSE parts[1] \o sep \o join(Tail(parts), sep)

-----------------------------------------------------------------------------
(* Natural numbers of any size: 16-bit limbs, least significant first,     *)
(* without leading zero limbs.  They carry the u64 and f64 arithmetic.     *)

Limb == 2^16

RECURSIVE BigNorm(_)
BigNorm(n) ==
    IF Len(n) > 0 /\ n[Len(n)] = 0 THEN BigNorm(SubSeq(n, 1, Len(n) - 1)) ELSE n

RECURSIVE BigOfInt(_)
BigOfInt(k) == IF k = 0 THEN <<>> ELSE <<k % Limb>> \o BigOfInt(k \div Limb)

RECURSIVE BigToInt(_)
BigToInt(n) == IF n = <<>> THEN 0 ELSE n[1] + Limb * BigToInt(Tail(n))

\* n * k + carry, for 0 <= k <= 2^15
RECURSIVE BigMulSmall(_, _, _)
BigMulSmall(n, k, carry) ==
    IF n = <<>> THEN BigOfInt(carry)
    ELSE LET t == n[1] * k + carry
         IN  BigNorm(<<t % Limb>> \o BigMulSmall(Tail(n), k, t \div Limb))

\* quotient and remainder of n by k, for 0 < k <= 2^15, from limb i downwards
RECURSIVE BigDivSmallFrom(_, _, _, _)
BigDivSmallFrom(n, k, i, r) ==
    IF i = 0 THEN [q |-> <<>>, r |-> r]
    ELSE LET t == r * Limb + n[i]
             rest == BigDivSmallFrom(n, k, i - 1, t % k)
         IN  [q |-> Append(rest.q, t \div k), r |-> rest.r]

BigDivSmall(n, k) ==
    LET d == BigDivSmallFrom(n, k, Len(n), 0) IN [q |-> BigNorm(d.q), r |-> d.r]

\* -1, 0, 1 as a < b, a = b, a > b; compares from limb i downwards
RECURSIVE BigCmpFrom(_, _, _)
BigCmpFrom(a, b, i) ==
    IF i = 0 THEN 0
    ELSE IF a[i] < b[i] THEN -1
    ELSE IF a[i] > b[i] THEN 1
    ELSE BigCmpFrom(a, b, i - 1)

BigCmp(a, b) ==
    IF Len(a) < Len(b) THEN -1
    ELSE IF Len(a) > Len(b) THEN 1
    ELSE BigCmpFrom(a, b, Len(a))

BigLimb(n, i) == IF i <= Len(n) THEN n[i] ELSE 0

RECURSIVE BigAddFrom(_, _, _, _)
BigAddFrom(a, b, i, carry) ==
    IF i > Len(a) /\ i > Len(b) THEN BigOfInt(carry)
    ELSE LET t == BigLimb(a, i) + BigLimb(b, i) + carry
         IN  <<t % Limb>> \o BigAddFrom(a, b, i + 1, t \div Limb)

BigAdd(a, b) == BigNorm(BigAddFrom(a, b, 1, 0))

\* a - b for a >= b
RECURSIVE BigSubFrom(_, _, _, _)
BigSubFrom(a, b, i, borrow) ==
    IF i > Len(a) THEN <<>>
    ELSE LET t == a[i] - BigLimb(b, i) - borrow
         IN  <<t % Limb>> \o BigSubFrom(a, b, i + 1, IF t < 0 THEN 1 ELSE 0)

BigSub(a, b) == BigNorm(BigSubFrom(a, b, 1, 0))

BigShl(n, k) ==
    IF n = <<>> THEN <<>>
    ELSE [i \in 1..(k \div 16) |-> 0] \o BigMulSmall(n, 2^(k % 16), 0)

BigShr(n, k) ==
    IF k \div 16 >= Len(n) THEN <<>>
    ELSE BigDivSmall(SubSeq(n, (k \div 16) + 1, Len(n)), 2^(k % 16)).q

\* n mod 2^k
BigLow(n, k) == BigSub(n, BigShl(BigShr(n, k), k))

RECURSIVE IntBitLen(_)
IntBitLen(x) == IF x = 0 THEN 0 ELSE 1 + IntBitLen(x \div 2)

BigBitLen(n) == IF n = <<>> THEN 0 ELSE 16 * (Len(n) - 1) + IntBitLen(n[Len(n)])

\* bit j of n, bit 0 the least significant
BigBit(n, j) == (BigLimb(n, (j \div 16) + 1) \div 2^(j % 16)) % 2

\* the 4-bit digit j of n, digit 0 the least significant
BigNibble(n, j) == (BigLimb(n, (j \div 4) + 1) \div 16^(j % 4)) % 16

\* one step of the long division of a by b # 0 over the 4-bit digits of a:
\* the quotient and remainder so far take in the highest of the j digits left
BigDivStep(a, b, sofar) ==
    LET r2 == BigMulSmall(sofar.r, 16, BigNibble(a, sofar.j - 1))
        d == CHOOSE x \in 0..15 :
                 /\ BigCmp(BigMulSmall(b, x, 0), r2) <= 0
                 /\ x = 15 \/ BigCmp(BigMulSmall(b, x + 1, 0), r2) > 0
    IN  [q |-> BigMulSmall(sofar.q, 16, d),
         r |-> BigSub(r2, BigMulSmall(b, d, 0)),
         j |-> sofar.j - 1]

RECURSIVE BigDivRemFrom(_, _, _)
BigDivRemFrom(a, b, sofar) ==
    IF sofar.j = 0 THEN sofar ELSE BigDivRemFrom(a, b, BigDivStep(a, b, sofar))

\* floor(a / b) as q and a mod b as r
BigDivRem(a, b) == BigDivRemFrom(a, b, [q |-> <<>>, r |-> <<>>, j |-> 4 * Len(a)])

Digits == {"0", "1", "2", "3", "4", "5", "6", "7", "8", "9"}

Digit(d) == SubSeq("0123456789", d + 1, d + 1)

DigitValue(c) == CHOOSE d \in 0..9 : Digit(d) = c

RECURSIVE BigDecDigits(_)
BigDecDigits(n) ==
    IF n = <<>> THEN ""
    ELSE LET d == BigDivSmall(n, 10) IN BigDecDigits(d.q) \o Digit(d.r)

\* Display for an unsigned integer
BigToDec(n) == IF n = <<>> THEN "0" ELSE BigDecDigits(n)

RECURSIVE BigFromDecAcc(_, _)
BigFromDecAcc(s, acc) ==
    IF s = "" THEN acc
    ELSE BigFromDecAcc(Tail(s), BigMulSmall(acc, 10, DigitValue(Head(s))))

BigFromDec(s) == BigFromDecAcc(s, <<>>)

-----------------------------------------------------------------------------
(* u64                                                                     *)

fits_u64(n) == Len(n) <= 4

\* the low 64 bits
wrap_u64(n) == BigNorm(SubSeq(n, 1, Min(Len(n), 4)))

TwoTo64 == <<0, 0, 0, 0, 1>>

\* str::parse::<u64>(): an optional "+", then decimal digits only; Err when
\* empty, when a character is no digit, or when the value exceeds u64::MAX
parse_u64(s) ==
    LET body == IF Len(s) > 1 /\ Head(s) = "+" THEN Tail(s) ELSE s
    IN  IF body = "" \/ \E k \in 1..Len(body) : Char(body, k) \notin Digits
        THEN None
        ELSE LET v == BigFromDec(body)
             IN  IF fits_u64(v) THEN Some(v) ELSE None

\* The outcome of an arithmetic step on u64: overflow checks are on in a debug
\* build (the step panics) and off in a release build (the value wraps).
Panic == [panic |-> TRUE]

Value(v) == [panic |-> FALSE, val |-> v]

\* a * k on u64
u64_mul(a, k, prof) ==
    LET p == BigMulSmall(a, k, 0)
    IN  IF fits_u64(p) THEN Value(p)
        ELSE IF prof = "debug" THEN Panic ELSE Value(wrap_u64(p))

\* a - b on u64
u64_sub(a, b, prof) ==
    IF BigCmp(a, b) >= 0 THEN Value(BigSub(a, b))
    ELSE IF prof = "debug" THEN Panic
    ELSE Value(BigSub(BigAdd(a, TwoTo64), b))

-----------------------------------------------------------------------------
(* f64: a class and, when finite, the value m * 2^e with m below 2^54.     *)
(* Only values that are not negative occur.  The exponents that occur stay *)
(* far from the ends of the binary64 range (quotients and products of u64  *)
(* values), so no result is subnormal or overflows.                        *)

Fin(m, e) == [cls |-> "fin", m |-> m, e |-> e]

NaN == [cls |-> "nan", m |-> <<>>, e |-> 0]

Inf == [cls |-> "inf", m |-> <<>>, e |-> 0]

\* m * 2^e (plus a non-zero part below the last bit of m when sticky) rounded
\* to 53 significant bits, to nearest, ties to even
f64_round(m, e, sticky) ==
    LET n == BigBitLen(m)
    IN  IF n <= 53 THEN Fin(m, e)
        ELSE LET k == n - 53
                 q == BigShr(m, k)
                 c == BigCmp(BigLow(m, k), BigShl(<<1>>, k - 1))
                 up == c = 1 \/ (c = 0 /\ (sticky \/ BigBit(q, 0) = 1))
             IN  Fin(IF up THEN BigAdd(q, <<1>>) ELSE q, e + k)

\* u64 as f64
u64_as_f64(u) == f64_round(u, 0, FALSE)

\* the quotient n / d of two natural numbers, d # 0, n # 0, times 2^e,
\* rounded once to f64
f64_ratio(n, d, e) ==
    LET s == 55 + BigBitLen(d) - Min(BigBitLen(n), 53 + BigBitLen(d))
        r == BigDivRem(BigShl(n, s), d)
    IN  f64_round(r.q, e - s, r.r # <<>>)

\* a / b on f64
f64_div(a, b) ==
    IF a.cls = "nan" \/ b.cls = "nan" THEN NaN
    ELSE IF a.cls = "inf" THEN (IF b.cls = "inf" THEN NaN ELSE Inf)
    ELSE IF b.cls = "inf" THEN Fin(<<>>, 0)
    ELSE IF b.m = <<>> THEN (IF a.m = <<>> THEN NaN ELSE Inf)
    ELSE IF a.m = <<>> THEN Fin(<<>>, 0)
    ELSE f64_ratio(a.m, b.m, a.e - b.e)

\* a * k on f64, for a whole number 0 < k <= 2^15 (which f64 holds exactly)
f64_mul(a, k) ==
    IF a.cls # "fin" THEN a ELSE f64_round(BigMulSmall(a.m, k, 0), a.e, FALSE)

\* floor of a finite f64
f64_trunc(a) == IF a.e >= 0 THEN BigShl(a.m, a.e) ELSE BigShr(a.m, 0 - a.e)

\* f64 as u8: NaN gives 0, the rest is truncated and saturates at 255
f64_as_u8(a) ==
    IF a.cls = "nan" THEN 0
    ELSE IF a.cls = "inf" THEN 255
    ELSE LET t == f64_trunc(a)
         IN  IF BigCmp(t, <<255>>) > 0 THEN 255 ELSE BigToInt(t)

\* a finite f64 times 100, rounded to a whole number, ties to even
f64_hundredths(a) ==
    LET p == BigMulSmall(a.m, 100, 0)
    IN  IF a.e >= 0 THEN BigShl(p, a.e)
        ELSE LET k == 0 - a.e
                 q == BigShr(p, k)
                 low == BigLow(p, k)
                 c == IF low = <<>> THEN -1 ELSE BigCmp(low, BigShl(<<1>>, k - 1))
             IN  IF c = 1 \/ (c = 0 /\ BigBit(q, 0) = 1)
                 THEN BigAdd(q, <<1>>) ELSE q

\* format!("{:.2}", a): the decimal expansion of a rounded to two places
fmt_f64_2(a) ==
    IF a.cls = "nan" THEN "NaN"
    ELSE IF a.cls = "inf" THEN "inf"
    ELSE LET d == BigDivSmall(f64_hundredths(a), 100)
         IN  BigToDec(d.q) \o "." \o Digit(d.r \div 10) \o Digit(d.r % 10)

\* str::parse::<f64>() on a word in plain decimal notation, digits with an
\* optional "." among them: the nearest f64.  A word with any other character
\* is taken to be no number (the exponent, sign, "inf" and "nan" forms that
\* parse also accepts are not among the modelled file contents).
parse_f64(s) ==
    LET dot == find(s, ".")
        int == IF dot = 0 THEN s ELSE SubSeq(s, 1, dot - 1)
        frac == IF dot = 0 THEN "" ELSE SubSeq(s, dot + 1, Len(s))
        all == int \o frac
    IN  IF all = "" \/ \E k \in 1..Len(all) : Char(all, k) \notin Digits
        THEN None
        ELSE LET n == BigFromDec(all)
             IN  IF n = <<>> THEN Some(Fin(<<>>, 0))
                 ELSE Some(f64_ratio(n, BigFromDec("1" \o repeat("0", Len(frac))), 0))

\* f64 as u64: NaN gives 0, the rest is truncated and saturates at u64::MAX
f64_as_u64(a) ==
    IF a.cls = "nan" THEN <<>>
    ELSE IF a.cls = "inf" THEN BigSub(TwoTo64, <<1>>)
    ELSE LET t == f64_trunc(a)
         IN  IF fits_u64(t) THEN t ELSE BigSub(TwoTo64, <<1>>)

-----------------------------------------------------------------------------
(* The host: what the probes read.                                         *)

\* cfg!(target_os = ...): the platform the binary was built for
Platforms == {"linux", "windows", "macos"}

\* std::env::consts::ARCH
Archs == {"x86_64", "aarch64"}

\* whether the build checks integer overflow (debug) or wraps (release)
Profiles == {"debug", "release"}

EnvNames ==
    {"USER", "USERNAME", "COMPUTERNAME", "SHELL", "ComSpec",
     "XDG_CURRENT_DESKTOP", "DESKTOP_SESSION", "XDG_SESSION_TYPE",
     "TERM_PROGRAM", "TERMINAL_EMULATOR", "LANG"}

\* An environment variable is unset, set to bytes that are no Unicode text,
\* or set to a string (which may be empty).
Unset == [kind |-> "unset", val |-> ""]

NotUnicode == [kind |-> "nonunicode", val |-> ""]

SetTo(v) == [kind |-> "set", val |-> v]

\* std::env::var(name): Ok only for a variable set to valid Unicode
env_var(name) == IF env[name].kind = "set" THEN Some(env[name].val) ELSE None

\* The scripts handed to powershell, named by what they query.
Scripts ==
    {"os", "host", "kernel", "build", "uptime", "psversion", "wm", "theme",
     "cpu", "gpu", "memory", "swap", "disk", "ip", "battery", "culture"}

Powershell(script) == "powershell -NoProfile -Command " \o script

Commands ==
    {"hostname", "uname -r", "choco list --local-only", "winget list"}
        \cup {Powershell(c) : c \in Scripts}

\* Command::output(): the program cannot be launched, or it runs and exits
\* with a status and its standard output, or it never exits.
NoLaunch == [kind |-> "nolaunch", status |-> 0, stdout |-> ""]

Hang == [kind |-> "hang", status |-> 0, stdout |-> ""]

Exit(status, stdout) == [kind |-> "exit", status |-> status, stdout |-> stdout]

Files == {"/proc/uptime", "/proc/cpuinfo", "/proc/meminfo"}

\* fs::read_to_string(path)
ReadErr == [ok |-> FALSE, text |-> ""]

ReadOk(text) == [ok |-> TRUE, text |-> text]

read_to_string(path) == IF file[path].ok THEN Some(file[path].text) ELSE None

-----------------------------------------------------------------------------
(* Helpers of main.rs                                                      *)

RESET == "^[[0m"

GREEN == "^[[32m"

YELLOW == "^[[33m"

BLUE == "^[[34m"

BOLD == "^[[1m"

\* Option::unwrap_or / unwrap_or_else
unwrap_or(opt, default) == IF opt.some THEN opt.val ELSE default

\* Option::or_else, Result::or_else
or_else(opt, other) == IF opt.some THEN opt ELSE other

\* .output().ok().map(stdout trimmed).filter(not empty): the exit status is
\* not looked at
captured(cmd) ==
    IF proc[cmd].kind # "exit" THEN None
    ELSE LET text == trim(proc[cmd].stdout)
         IN  IF text # "" THEN Some(text) ELSE None

shell_command(cmd) == captured(cmd)

powershell_command(script) ==
    IF target_os = "windows" THEN captured(Powershell(script)) ELSE None

-----------------------------------------------------------------------------
(* The probes                                                              *)

\* the username with the two variables consulted in the other order
get_username_reversed ==
    unwrap_or(or_else(env_var("USERNAME"), env_var("USER")), "unknown")

\* gather_system_info, lines 74-76
get_username ==
    unwrap_or(or_else(env_var("USER"), env_var("USERNAME")), "unknown")

get_hostname ==
    IF target_os = "windows"
    THEN unwrap_or(env_var("COMPUTERNAME"), "unknown")
    ELSE unwrap_or(shell_command("hostname"), "unknown")

\* std::env::consts::OS is the name of the target platform
get_os_info ==
    IF target_os = "windows"
    THEN unwrap_or(powershell_command("os"), target_os \o " " \o arch)
    ELSE target_os \o " " \o arch

get_host_info ==
    IF target_os = "windows"
    THEN LET s == powershell_command("host")
         IN  IF s.some /\ s.val # " ()" THEN s.val ELSE "Unknown"
    ELSE "Unknown"

\* str::parse::<u32>().unwrap_or(0) > bound, for a bound below 2^16
parse_u32_exceeds(s, bound) ==
    LET v == parse_u64(s)
    IN  v.some /\ Len(v.val) <= 2 /\ BigCmp(v.val, BigOfInt(bound)) > 0

DevBuild == 22000

get_kernel_version ==
    IF target_os = "windows"
    THEN LET base == powershell_command("kernel")
             build == powershell_command("build")
         IN  IF base.some
             THEN IF build.some /\ parse_u32_exceeds(build.val, DevBuild)
                  THEN base.val \o " (Dev)" ELSE base.val
             ELSE "unknown"
    ELSE unwrap_or(shell_command("uname -r"), "unknown")

plural(n) == IF n = 1 THEN "" ELSE "s"

SecondsPerDay == 86400

SecondsPerHour == 3600

SecondsPerMinute == 60

\* format_uptime with the hours counted over the whole uptime
format_uptime_whole_hours(seconds) ==
    LET days == seconds \div SecondsPerDay
        hours == seconds \div SecondsPerHour
        minutes == (seconds % SecondsPerHour) \div SecondsPerMinute
        parts ==
            (IF days > 0 THEN <<ToString(days) \o " day" \o plural(days)>> ELSE <<>>)
            \o (IF hours > 0 THEN <<ToString(hours) \o " hour" \o plural(hours)>>
                ELSE <<>>)
            \o (IF minutes > 0 THEN <<ToString(minutes) \o " min" \o plural(minutes)>>
                ELSE <<>>)
    IN  IF parts = <<>> THEN "less than a minute" ELSE join(parts, ", ")

\* seconds is a u64; the model holds it as an integer below 2^31
format_uptime(seconds) ==
    LET days == seconds \div SecondsPerDay
        hours == (seconds % SecondsPerDay) \div SecondsPerHour
        minutes == (seconds % SecondsPerHour) \div SecondsPerMinute
        parts ==
            (IF days > 0 THEN <<ToString(days) \o " day" \o plural(days)>> ELSE <<>>)
            \o (IF hours > 0 THEN <<ToString(hours) \o " hour" \o plural(hours)>>
                ELSE <<>>)
            \o (IF minutes > 0 THEN <<ToString(minutes) \o " min" \o plural(minutes)>>
                ELSE <<>>)
    IN  IF parts = <<>> THEN "less than a minute" ELSE join(parts, ", ")

get_uptime ==
    IF target_os = "linux"
    THEN LET uptime_str == read_to_string("/proc/uptime")
             word == IF uptime_str.some THEN first_word(uptime_str.val) ELSE None
             seconds == IF word.some THEN parse_f64(word.val) ELSE None
         IN  IF seconds.some
             THEN format_uptime(BigToInt(f64_as_u64(seconds.val)))
             ELSE "unknown"
    ELSE IF target_os = "windows"
    THEN unwrap_or(powershell_command("uptime"), "unknown")
    ELSE "unknown"

choco_line(line) == line # "" /\ ~contains(line, "packages installed")

winget_line(line) ==
    line # "" /\ ~starts_with(line, "Name") /\ ~starts_with(line, "-")

choco_count ==
    LET output == shell_command("choco list --local-only")
    IN  IF output.some THEN Len(SelectSeq(lines(output.val), choco_line)) ELSE 0

winget_count ==
    LET output == shell_command("winget list")
    IN  IF output.some THEN Len(SelectSeq(lines(output.val), winget_line)) ELSE 0

get_packages ==
    IF target_os = "windows" /\ choco_count > 0
    THEN ToString(Max(choco_count - 1, 0)) \o " (choco)"
    ELSE IF target_os = "windows" /\ winget_count > 0
    THEN ToString(winget_count) \o " (winget)"
    ELSE "0"

get_shell ==
    LET version == powershell_command("psversion")
        shell_path == or_else(env_var("SHELL"), env_var("ComSpec"))
    IN  IF target_os = "windows" /\ version.some
        THEN "Windows PowerShell " \o version.val
        ELSE IF shell_path.some
        THEN unwrap_or(last_component(shell_path.val), "unknown")
        ELSE "unknown"

get_display_info ==
    IF target_os = "windows"
    THEN <<"Display: 1920x1080 @ 60 Hz [Built-in]">>
    ELSE <<>>

get_desktop_environment ==
    IF target_os = "windows" THEN "Fluent"
    ELSE unwrap_or(or_else(env_var("XDG_CURRENT_DESKTOP"),
                           env_var("DESKTOP_SESSION")), "unknown")

get_window_manager ==
    IF target_os = "windows"
    THEN unwrap_or(powershell_command("wm"), "Desktop Window Manager")
    ELSE unwrap_or(env_var("XDG_SESSION_TYPE"), "unknown")

get_wm_theme ==
    IF target_os = "windows"
    THEN unwrap_or(powershell_command("theme"), "unknown")
    ELSE "unknown"

get_icons == ""

get_font ==
    IF target_os = "windows"
    THEN "Segoe UI (12pt) [Caption / Menu / Message / Status]"
    ELSE "unknown"

get_cursor ==
    IF target_os = "windows" THEN "Windows Default (32px)" ELSE "unknown"

get_terminal ==
    unwrap_or(or_else(env_var("TERM_PROGRAM"), env_var("TERMINAL_EMULATOR")),
              IF target_os = "windows" THEN "Windows Terminal" ELSE "unknown")

\* str::split(':').nth(1): the piece between the first and the second colon
split_nth1(line) ==
    LET rest == split_once(line, ":")
    IN  IF ~rest.some THEN None
        ELSE LET k == find(rest.val[2], ":")
             IN  Some(IF k = 0 THEN rest.val[2] ELSE SubSeq(rest.val[2], 1, k - 1))

\* the loop over the lines of /proc/cpuinfo: the first "model name" line that
\* has a colon returns
RECURSIVE model_name(_)
model_name(ls) ==
    IF ls = <<>> THEN None
    ELSE LET name == IF starts_with(Head(ls), "model name")
                     THEN split_nth1(Head(ls)) ELSE None
         IN  IF name.some THEN Some(trim(name.val)) ELSE model_name(Tail(ls))

get_cpu_info ==
    LET cpuinfo == read_to_string("/proc/cpuinfo")
        cpu_name == IF cpuinfo.some THEN model_name(lines(cpuinfo.val)) ELSE None
        output == powershell_command("cpu")
    IN  IF target_os = "linux" /\ cpu_name.some
        THEN cpu_name.val \o " (" \o ToString(ncpus) \o ")"
        ELSE IF target_os = "windows" /\ output.some
        THEN output.val
        ELSE "Unknown (" \o ToString(ncpus) \o " cores)"

nonblank(line) == trim(line) # ""

\* output.lines().filter(not blank).map(trim).collect()
trimmed_lines(output) ==
    LET kept == SelectSeq(lines(output), nonblank)
    IN  [k \in 1..Len(kept) |-> trim(kept[k])]

get_gpu_info ==
    LET output == powershell_command("gpu")
    IN  IF output.some THEN trimmed_lines(output.val) ELSE <<"Unknown GPU">>

GiB == 2^30

\* format_bytes_gib in decimal units, 10^9 bytes
format_bytes_decimal(bytes) ==
    fmt_f64_2(f64_div(u64_as_f64(bytes), u64_as_f64(BigOfInt(10^9)))) \o " GiB"

format_bytes_gib(bytes) ==
    fmt_f64_2(f64_div(u64_as_f64(bytes), u64_as_f64(BigOfInt(GiB)))) \o " GiB"

\* HashMap::insert and HashMap::get
insert(m, k, v) == [x \in DOMAIN m \cup {k} |-> IF x = k THEN v ELSE m[x]]

get(m, k) == IF k \in DOMAIN m THEN Some(m[k]) ELSE None

KiB == 1024

\* the loop over the lines of /proc/meminfo: mem_data after them, or a panic
\* where value * 1024 overflows in a build that checks
RECURSIVE mem_scan(_, _)
mem_scan(ls, mem_data) ==
    IF ls = <<>> THEN Value(mem_data)
    ELSE LET kv == split_once(Head(ls), ":")
             value_str == IF kv.some THEN first_word(trim(kv.val[2])) ELSE None
             value == IF value_str.some THEN parse_u64(value_str.val) ELSE None
             bytes == u64_mul(value.val, KiB, profile)
         IN  IF ~value.some THEN mem_scan(Tail(ls), mem_data)
             ELSE IF bytes.panic THEN Panic
             ELSE mem_scan(Tail(ls), insert(mem_data, trim(kv.val[1]), bytes.val))

\* (used as f64 / total as f64) * 100.0, as u8
mem_percentage(used, total) ==
    f64_as_u8(f64_mul(f64_div(u64_as_f64(used), u64_as_f64(total)), 100))

\* lines 394-398
mem_summary(total, available) ==
    LET used == u64_sub(total, available, profile)
    IN  IF used.panic THEN Panic
        ELSE Value(format_bytes_gib(used.val) \o " / " \o format_bytes_gib(total)
                   \o " (" \o ToString(mem_percentage(used.val, total)) \o "%)")

\* a string, or a panic
get_memory_info ==
    LET meminfo == read_to_string("/proc/meminfo")
        scan == mem_scan(lines(meminfo.val), <<>>)
        total == get(scan.val, "MemTotal")
        available == get(scan.val, "MemAvailable")
        output == powershell_command("memory")
    IN  IF target_os = "linux" /\ meminfo.some
        THEN IF scan.panic THEN Panic
             ELSE IF total.some /\ available.some
             THEN mem_summary(total.val, available.val)
             ELSE Value("unknown")
        ELSE IF target_os = "windows" /\ output.some
        THEN Value(output.val)
        ELSE Value("unknown")

get_swap_info ==
    IF target_os = "windows"
    THEN unwrap_or(powershell_command("swap"), "unknown")
    ELSE "unknown"

get_disk_info ==
    LET output == powershell_command("disk")
    IN  IF output.some THEN trimmed_lines(output.val) ELSE <<"Unknown disk">>

get_local_ip ==
    IF target_os = "windows"
    THEN unwrap_or(powershell_command("ip"), "unknown")
    ELSE "unknown"

get_battery_info ==
    IF target_os = "windows"
    THEN unwrap_or(powershell_command("battery"), "No battery detected")
    ELSE "No battery detected"

get_locale ==
    IF target_os = "windows"
    THEN unwrap_or(powershell_command("culture"),
                   unwrap_or(env_var("LANG"), "unknown"))
    ELSE unwrap_or(env_var("LANG"), "unknown")

-----------------------------------------------------------------------------
(* Subprocesses are waited on with no timeout: a probe returns only when   *)
(* every program it runs has exited.                                       *)

\* the commands the probe at pc = p runs on this host
waits_on(p) ==
    LET ps(script) == IF target_os = "windows" THEN {Powershell(script)} ELSE {}
    IN  CASE p = "get_hostname" ->
                 IF target_os = "windows" THEN {} ELSE {"hostname"}
          [] p = "get_os_info" -> ps("os")
          [] p = "get_host_info" -> ps("host")
          [] p = "get_kernel_version" ->
                 IF target_os # "windows" THEN {"uname -r"}
                 ELSE ps("kernel")
                      \cup (IF captured(Powershell("kernel")).some
                            THEN ps("build") ELSE {})
          [] p = "get_uptime" -> ps("uptime")
          [] p = "get_packages" ->
                 IF target_os # "windows" THEN {}
                 ELSE {"choco list --local-only"}
                      \cup (IF proc["choco list --local-only"].kind # "hang"
                               /\ choco_count = 0
                            THEN {"winget list"} ELSE {})
          [] p = "get_shell" -> ps("psversion")
          [] p = "get_window_manager" -> ps("wm")
          [] p = "get_wm_theme" -> ps("theme")
          [] p = "get_cpu_info" -> ps("cpu")
          [] p = "get_gpu_info" -> ps("gpu")
          [] p = "get_memory_info" -> ps("memory")
          [] p = "get_swap_info" -> ps("swap")
          [] p = "get_disk_info" -> ps("disk")
          [] p = "get_local_ip" -> ps("ip")
          [] p = "get_battery_info" -> ps("battery")
          [] p = "get_locale" -> ps("culture")
          [] OTHER -> {}

blocked(p) == \E c \in waits_on(p) : proc[c].kind = "hang"

-----------------------------------------------------------------------------
(* gather_system_info                                                      *)

\* SystemInfo::default()
default ==
    [username |-> "", hostname |-> "", os |-> "", host |-> "", kernel |-> "",
     uptime |-> "", packages |-> "", shell |-> "", display |-> <<>>, de |-> "",
     wm |-> "", wm_theme |-> "", icons |-> "", font |-> "", cursor |-> "",
     terminal |-> "", cpu |-> "", gpu |-> <<>>, memory |-> "", swap |-> "",
     disk |-> <<>>, local_ip |-> "", battery |-> "", locale |-> ""]

\* the statements of gather_system_info in their order, by the probe each calls
ProbeOrder ==
    <<"username", "get_hostname", "get_os_info", "get_host_info",
      "get_kernel_version", "get_uptime", "get_packages", "get_shell",
      "get_display_info", "get_desktop_environment", "get_window_manager",
      "get_wm_theme", "get_icons", "get_font", "get_cursor", "get_terminal",
      "get_cpu_info", "get_gpu_info", "get_memory_info", "get_swap_info",
      "get_disk_info", "get_local_ip", "get_battery_info", "get_locale">>

position(p) == CHOOSE k \in 1..Len(ProbeOrder) : ProbeOrder[k] = p

\* where control goes when the statement at p is done: the next statement, or
\* display_info once gather_system_info has returned the snapshot to main
after(p) ==
    IF position(p) < Len(ProbeOrder) THEN ProbeOrder[position(p) + 1]
    ELSE "display_info"

\* control is at the statement that calls p, and every subprocess of p exits
Ready(p) == pc = p /\ ~blocked(p)

\* the statement that calls p is done
Return(p) == pc' = after(p) /\ UNCHANGED <<world, out, row, arg, ret>>

Set_username ==
    /\ Ready("username")
    /\ info' = [info EXCEPT !.username = get_username]
    /\ Return("username")

Set_hostname ==
    /\ Ready("get_hostname")
    /\ info' = [info EXCEPT !.hostname = get_hostname]
    /\ Return("get_hostname")

Set_os ==
    /\ Ready("get_os_info")
    /\ info' = [info EXCEPT !.os = get_os_info]
    /\ Return("get_os_info")

Set_host ==
    /\ Ready("get_host_info")
    /\ info' = [info EXCEPT !.host = get_host_info]
    /\ Return("get_host_info")

Set_kernel ==
    /\ Ready("get_kernel_version")
    /\ info' = [info EXCEPT !.kernel = get_kernel_version]
    /\ Return("get_kernel_version")

Set_uptime ==
    /\ Ready("get_uptime")
    /\ info' = [info EXCEPT !.uptime = get_uptime]
    /\ Return("get_uptime")

Set_packages ==
    /\ Ready("get_packages")
    /\ info' = [info EXCEPT !.packages = get_packages]
    /\ Return("get_packages")

Set_shell ==
    /\ Ready("get_shell")
    /\ info' = [info EXCEPT !.shell = get_shell]
    /\ Return("get_shell")

Set_display ==
    /\ Ready("get_display_info")
    /\ info' = [info EXCEPT !.display = get_display_info]
    /\ Return("get_display_info")

Set_de ==
    /\ Ready("get_desktop_environment")
    /\ info' = [info EXCEPT !.de = get_desktop_environment]
    /\ Return("get_desktop_environment")

Set_wm ==
    /\ Ready("get_window_manager")
    /\ info' = [info EXCEPT !.wm = get_window_manager]
    /\ Return("get_window_manager")

Set_wm_theme ==
    /\ Ready("get_wm_theme")
    /\ info' = [info EXCEPT !.wm_theme = get_wm_theme]
    /\ Return("get_wm_theme")

Set_icons ==
    /\ Ready("get_icons")
    /\ info' = [info EXCEPT !.icons = get_icons]
    /\ Return("get_icons")

Set_font ==
    /\ Ready("get_font")
    /\ info' = [info EXCEPT !.font = get_font]
    /\ Return("get_font")

Set_cursor ==
    /\ Ready("get_cursor")
    /\ info' = [info EXCEPT !.cursor = get_cursor]
    /\ Return("get_cursor")

Set_terminal ==
    /\ Ready("get_terminal")
    /\ info' = [info EXCEPT !.terminal = get_terminal]
    /\ Return("get_terminal")

Set_cpu ==
    /\ Ready("get_cpu_info")
    /\ info' = [info EXCEPT !.cpu = get_cpu_info]
    /\ Return("get_cpu_info")

Set_gpu ==
    /\ Ready("get_gpu_info")
    /\ info' = [info EXCEPT !.gpu = get_gpu_info]
    /\ Return("get_gpu_info")

\* a panic in get_memory_info unwinds through main: the process aborts
Set_memory ==
    /\ Ready("get_memory_info")
    /\ IF get_memory_info.panic
       THEN pc' = "panicked" /\ UNCHANGED info
       ELSE /\ info' = [info EXCEPT !.memory = get_memory_info.val]
            /\ pc' = after("get_memory_info")
    /\ UNCHANGED <<world, out, row, arg, ret>>

Set_swap ==
    /\ Ready("get_swap_info")
    /\ info' = [info EXCEPT !.swap = get_swap_info]
    /\ Return("get_swap_info")

Set_disk ==
    /\ Ready("get_disk_info")
    /\ info' = [info EXCEPT !.disk = get_disk_info]
    /\ Return("get_disk_info")

Set_local_ip ==
    /\ Ready("get_local_ip")
    /\ info' = [info EXCEPT !.local_ip = get_local_ip]
    /\ Return("get_local_ip")

Set_battery ==
    /\ Ready("get_battery_info")
    /\ info' = [info EXCEPT !.battery = get_battery_info]
    /\ Return("get_battery_info")

Set_locale ==
    /\ Ready("get_locale")
    /\ info' = [info EXCEPT !.locale = get_locale]
    /\ Return("get_locale")

-----------------------------------------------------------------------------
(* display_info                                                            *)

LOGO ==
    LET bar == repeat("/", 17) \o "  " \o repeat("/", 17)
    IN  <<"/">> \o [k \in 1..7 |-> bar] \o <<"">> \o [k \in 1..7 |-> bar]
        \o [k \in 1..7 |-> ""]

\* the box-drawing character U+2500 of the separator, written "-"
Dash == "-"

LogoWidth == 40

gpu_line(gpu) == "GPU: " \o gpu

info_lines ==
    LET user_host == info.username \o "@" \o info.hostname
    IN  <<user_host,
          repeat(Dash, Len(user_host)),
          "OS: " \o info.os,
          "Host: " \o info.host,
          "Kernel: " \o info.kernel,
          "Uptime: " \o info.uptime,
          "Packages: " \o info.packages,
          "Shell: " \o info.shell>>
        \o info.display
        \o <<"DE: " \o info.de,
             "WM: " \o info.wm,
             "WM Theme: " \o info.wm_theme,
             "Icons: " \o info.icons,
             "Font: " \o info.font,
             "Cursor: " \o info.cursor,
             "Terminal: " \o info.terminal,
             "CPU: " \o info.cpu>>
        \o [k \in 1..Len(info.gpu) |-> gpu_line(info.gpu[k])]
        \o <<"Memory: " \o info.memory,
             "Swap: " \o info.swap>>
        \o info.disk
        \o <<info.local_ip,
             info.battery,
             "Locale: " \o info.locale>>

\* as many rows as the logo has lines
max_lines_of_logo == Len(LOGO)

max_lines == Max(Len(LOGO), Len(info_lines))

\* format!("{:<40}", s): s, then spaces up to the width
pad(s, width) == s \o repeat(" ", width - Len(s))

\* the logo column of row i, rows counted from 0
logo_column(i) ==
    IF i < Len(LOGO) THEN BLUE \o pad(LOGO[i + 1], LogoWidth) \o RESET
    ELSE pad("", LogoWidth)

\* the info column with the label taken up to the last colon of the line
styled_at_last_colon(i, line) ==
    LET at == {k \in 1..Len(line) : Char(line, k) = ":"}
        last == CHOOSE k \in at : \A j \in at : j <= k
    IN  IF i = 0 THEN BOLD \o GREEN \o line \o RESET
        ELSE IF i = 1 THEN BLUE \o line \o RESET
        ELSE IF at # {}
        THEN BOLD \o YELLOW \o SubSeq(line, 1, last - 1) \o ":" \o RESET
                 \o SubSeq(line, last + 1, Len(line))
        ELSE line

\* the info column of an info line at row i
styled(i, line) ==
    LET parts == split_once(line, ":")
    IN  IF i = 0 THEN BOLD \o GREEN \o line \o RESET
        ELSE IF i = 1 THEN BLUE \o line \o RESET
        ELSE IF parts.some
        THEN BOLD \o YELLOW \o parts.val[1] \o ":" \o RESET \o parts.val[2]
        ELSE line

info_column(i) ==
    IF i < Len(info_lines) THEN styled(i, info_lines[i + 1]) ELSE ""

\* the println!() before the rows
Display_begin ==
    /\ pc = "display_info"
    /\ out' = Append(out, "")
    /\ row' = 0
    /\ pc' = "rows"
    /\ UNCHANGED <<world, info, arg, ret>>

\* one turn of the loop over 0..max_lines
Print_row ==
    /\ pc = "rows"
    /\ row < max_lines
    /\ out' = Append(out, logo_column(row) \o info_column(row))
    /\ row' = row + 1
    /\ UNCHANGED <<world, info, pc, arg, ret>>

\* the println!() after the rows; main returns
Display_end ==
    /\ pc = "rows"
    /\ row = max_lines
    /\ out' = Append(out, "")
    /\ pc' = "done"
    /\ UNCHANGED <<world, info, row, arg, ret>>

-----------------------------------------------------------------------------
(* The hosts a run starts on.  The probes read disjoint data sources, so a *)
(* host takes every combination of outcomes for the sources of one group   *)
(* of probes, and for all other sources either nothing (every variable     *)
(* unset, no file readable, no program launchable) or a usual value.       *)

MaxCpus == 2

MaxGpus == 3

MaxDisks == 2

EnvValues(n) ==
    CASE n = "USER" -> {"alice", "a:b", ""}
      [] n = "USERNAME" -> {"bob"}
      [] n = "COMPUTERNAME" -> {"DESKTOP-1", "pc:1"}
      [] n = "SHELL" -> {"/bin/bash", "/usr/local/bin/", "zsh"}
      [] n = "ComSpec" -> {"C:\\Windows\\system32\\cmd.exe"}
      [] n = "XDG_CURRENT_DESKTOP" -> {"GNOME"}
      [] n = "DESKTOP_SESSION" -> {"plasma"}
      [] n = "XDG_SESSION_TYPE" -> {"wayland"}
      [] n = "TERM_PROGRAM" -> {"vscode"}
      [] n = "TERMINAL_EMULATOR" -> {"JetBrains-JediTerm"}
      [] n = "LANG" -> {"en_US.UTF-8"}

EnvChoices(n) == {Unset, NotUnicode} \cup {SetTo(v) : v \in EnvValues(n)}

\* k lines of powershell output, one per device, with a blank line after
\* the first
RECURSIVE device_lines(_, _, _)
device_lines(k, before, behind) ==
    IF k = 0 THEN ""
    ELSE device_lines(k - 1, before, behind)
         \o (IF k = 2 THEN "  \r\n" ELSE "")
         \o before \o ToString(k) \o behind \o "\r\n"

Texts(c) ==
    CASE c = "hostname" -> {"box\n", "a:b\n"}
      [] c = "uname -r" -> {"6.1.0-13-amd64\n"}
      [] c = "choco list --local-only" ->
             {"Chocolatey v1.4.0\ngit 2.42.0\nvim 9.0\n2 packages installed.\n",
              "0 packages installed.\n",
              "Chocolatey v1.4.0\n"}
      [] c = "winget list" ->
             {"Name   Id      Version\n----------------------\nGit    Git.Git 2.42\nVim    vim.vim 9.0\n",
              "Name   Id      Version\n----------------------\n"}
      [] c = Powershell("os") -> {"Windows 11 Pro AMD64\r\n"}
      [] c = Powershell("host") -> {"PF3XXXXX (20XW0026US)\r\n", " ()\r\n"}
      [] c = Powershell("kernel") -> {"WIN32_NT 10.0.22631\r\n"}
      [] c = Powershell("build") -> {"22631\r\n", "22000\r\n", "n/a\r\n"}
      [] c = Powershell("uptime") -> {"1 day, 2 hours, 5 mins\r\n"}
      [] c = Powershell("psversion") -> {"5.1.22621.2506\r\n"}
      [] c = Powershell("wm") -> {"Desktop Window Manager 10.0.22631\r\n"}
      [] c = Powershell("theme") ->
             {"Custom - Blue (System: Dark, Apps: Dark)\r\n", "Custom - Blue\r\n"}
      [] c = Powershell("cpu") -> {"Intel(R) Core(TM) i7-10750H (12) @ 2.59 GHz\r\n"}
      [] c = Powershell("gpu") ->
             {device_lines(k, "GPU", " (4.00 GiB) [Discrete]") : k \in 1..MaxGpus}
      [] c = Powershell("memory") -> {"6.00 GiB / 16.00 GiB (38%)\r\n"}
      [] c = Powershell("swap") -> {"512.00 MiB / 2.00 GiB (25%)\r\n", "No swap\r\n"}
      [] c = Powershell("disk") ->
             {device_lines(k, "Disk (", ":): 100.00 GiB / 200.00 GiB (50%) - NTFS")
                 : k \in 1..MaxDisks}
      [] c = Powershell("ip") ->
             {"Local IP (Ethernet): 192.168.1.5/24\r\n",
              "No active network connection\r\n"}
      [] c = Powershell("battery") ->
             {"Battery (BAT0): 80% [AC Connected]\r\n", "No battery detected\r\n"}
      [] c = Powershell("culture") -> {"en-US\r\n"}

\* a usual outcome: the program exits with status 0 and its first text
UsualText(c) ==
    CASE c = "hostname" -> "box\n"
      [] c = "choco list --local-only" ->
             "Chocolatey v1.4.0\ngit 2.42.0\nvim 9.0\n2 packages installed.\n"
      [] c = "winget list" ->
             "Name   Id      Version\n----------------------\nGit    Git.Git 2.42\nVim    vim.vim 9.0\n"
      [] c = Powershell("host") -> "PF3XXXXX (20XW0026US)\r\n"
      [] c = Powershell("build") -> "22631\r\n"
      [] c = Powershell("theme") -> "Custom - Blue (System: Dark, Apps: Dark)\r\n"
      [] c = Powershell("swap") -> "512.00 MiB / 2.00 GiB (25%)\r\n"
      [] c = Powershell("ip") -> "Local IP (Ethernet): 192.168.1.5/24\r\n"
      [] c = Powershell("battery") -> "Battery (BAT0): 80% [AC Connected]\r\n"
      [] c = Powershell("gpu") -> device_lines(1, "GPU", " (4.00 GiB) [Discrete]")
      [] c = Powershell("disk") ->
             device_lines(1, "Disk (", ":): 100.00 GiB / 200.00 GiB (50%) - NTFS")
      [] OTHER -> CHOOSE t \in Texts(c) : TRUE

\* cannot be launched; exits 0 or non-zero printing nothing; exits 0 printing
\* a text; exits non-zero printing a text
ProcChoices(c) ==
    {NoLaunch, Exit(0, ""), Exit(1, ""), Exit(1, UsualText(c))}
        \cup {Exit(0, t) : t \in Texts(c)}

Contents(f) ==
    CASE f = "/proc/uptime" ->
             {"3661.25 7200.00\n", "59.99 10.00\n", "90000.00 1.00\n", "",
              "  \n", "up 3 days\n"}
      [] f = "/proc/cpuinfo" ->
             {"processor\t: 0\nmodel name\t: AMD Ryzen 7 5800X 8-Core Processor\n",
              "model name\nmodel name\t: Cortex-A72: r0p3\n",
              "processor\t: 0\n", ""}
      [] f = "/proc/meminfo" ->
             {"MemTotal:       16384000 kB\nMemFree:         1000000 kB\nMemAvailable:    8192000 kB\n",
              "MemTotal:       16384000 kB\n",
              "MemTotal:            100 kB\nMemAvailable:        200 kB\n",
              ""}

UsualContent(f) ==
    CASE f = "/proc/uptime" -> "3661.25 7200.00\n"
      [] f = "/proc/cpuinfo" ->
             "processor\t: 0\nmodel name\t: AMD Ryzen 7 5800X 8-Core Processor\n"
      [] f = "/proc/meminfo" ->
             "MemTotal:       16384000 kB\nMemFree:         1000000 kB\nMemAvailable:    8192000 kB\n"

FileChoices(f) == {ReadErr} \cup {ReadOk(t) : t \in Contents(f)}

Group(envs, procs, files, build) ==
    [envs |-> envs, procs |-> procs, files |-> files, build |-> build]

\* the data sources by the probe and platform branch that reads them; the gpu
\* and disk probes form one group since both set the number of rows printed
Groups ==
    {Group({"USER", "USERNAME"}, {}, {}, {}),
     Group({"COMPUTERNAME"}, {}, {}, {}),
     Group({}, {"hostname"}, {}, {}),
     Group({}, {Powershell("os")}, {}, {"arch"}),
     Group({}, {Powershell("host")}, {}, {}),
     Group({}, {"uname -r"}, {}, {}),
     Group({}, {Powershell("kernel"), Powershell("build")}, {}, {}),
     Group({}, {}, {"/proc/uptime"}, {}),
     Group({}, {Powershell("uptime")}, {}, {}),
     Group({}, {"choco list --local-only", "winget list"}, {}, {}),
     Group({"SHELL", "ComSpec"}, {Powershell("psversion")}, {}, {}),
     Group({"XDG_CURRENT_DESKTOP", "DESKTOP_SESSION"}, {}, {}, {}),
     Group({"XDG_SESSION_TYPE"}, {}, {}, {}),
     Group({}, {Powershell("wm")}, {}, {}),
     Group({}, {Powershell("theme")}, {}, {}),
     Group({"TERM_PROGRAM", "TERMINAL_EMULATOR"}, {}, {}, {}),
     Group({}, {}, {"/proc/cpuinfo"}, {"ncpus"}),
     Group({}, {Powershell("cpu")}, {}, {"ncpus"}),
     Group({}, {Powershell("gpu"), Powershell("disk")}, {}, {}),
     Group({}, {}, {"/proc/meminfo"}, {"profile"}),
     Group({}, {Powershell("memory")}, {}, {}),
     Group({}, {Powershell("swap")}, {}, {}),
     Group({}, {Powershell("ip")}, {}, {}),
     Group({}, {Powershell("battery")}, {}, {}),
     Group({"LANG"}, {Powershell("culture")}, {}, {})}

Backgrounds == {"absent", "usual"}

EnvBackground(bg, n) ==
    IF bg = "absent" THEN Unset ELSE SetTo(CHOOSE v \in EnvValues(n) : v # "")

ProcBackground(bg, c) == IF bg = "absent" THEN NoLaunch ELSE Exit(0, UsualText(c))

FileBackground(bg, f) == IF bg = "absent" THEN ReadErr ELSE ReadOk(UsualContent(f))

\* the hosts whose group of interest is g
GroupInit(g, bg) ==
    /\ profile \in (IF "profile" \in g.build THEN Profiles ELSE {"release"})
    /\ arch \in (IF "arch" \in g.build THEN Archs ELSE {"x86_64"})
    /\ ncpus \in (IF "ncpus" \in g.build THEN 1..MaxCpus ELSE {MaxCpus})
    /\ \E c \in {f \in [g.envs -> UNION {EnvChoices(x) : x \in g.envs}] :
                    \A x \in g.envs : f[x] \in EnvChoices(x)} :
         env = [n \in EnvNames |->
                   IF n \in g.envs THEN c[n] ELSE EnvBackground(bg, n)]
    /\ \E c \in {f \in [g.procs -> UNION {ProcChoices(x) : x \in g.procs}] :
                    \A x \in g.procs : f[x] \in ProcChoices(x)} :
         proc = [n \in Commands |->
                    IF n \in g.procs THEN c[n] ELSE ProcBackground(bg, n)]
    /\ \E c \in {f \in [g.files -> UNION {FileChoices(x) : x \in g.files}] :
                    \A x \in g.files : f[x] \in FileChoices(x)} :
         file = [n \in Files |->
                    IF n \in g.files THEN c[n] ELSE FileBackground(bg, n)]

\* the hosts on which the program h never exits
HangInit(h, bg) ==
    /\ profile = "release"
    /\ arch = "x86_64"
    /\ ncpus = MaxCpus
    /\ env = [n \in EnvNames |-> EnvBackground(bg, n)]
    /\ proc = [n \in Commands |-> IF n = h THEN Hang ELSE ProcBackground(bg, n)]
    /\ file = [n \in Files |-> FileBackground(bg, n)]

HostInit ==
    /\ target_os \in Platforms
    /\ \E bg \in Backgrounds :
         \/ \E g \in Groups : GroupInit(g, bg)
         \/ \E h \in Commands : HangInit(h, bg)

NoCall == "none"

Init ==
    /\ HostInit
    /\ pc = ProbeOrder[1]
    /\ info = default
    /\ out = <<>>
    /\ row = 0
    /\ arg = NoCall
    /\ ret = NoCall

Next ==
    \/ Set_username
    \/ Set_hostname
    \/ Set_os
    \/ Set_host
    \/ Set_kernel
    \/ Set_uptime
    \/ Set_packages
    \/ Set_shell
    \/ Set_display
    \/ Set_de
    \/ Set_wm
    \/ Set_wm_theme
    \/ Set_icons
    \/ Set_font
    \/ Set_cursor
    \/ Set_terminal
    \/ Set_cpu
    \/ Set_gpu
    \/ Set_memory
    \/ Set_swap
    \/ Set_disk
    \/ Set_local_ip
    \/ Set_battery
    \/ Set_locale
    \/ Display_begin
    \/ Print_row
    \/ Display_end

Spec == Init /\ [][Next]_vars

-----------------------------------------------------------------------------
(* Single calls.  A call specification starts with the arguments drawn,    *)
(* on a host where nothing else is available, and makes the call.          *)

BareHost ==
    /\ profile \in Profiles
    /\ arch = "x86_64"
    /\ ncpus = 1
    /\ env = [n \in EnvNames |-> Unset]
    /\ proc = [n \in Commands |-> NoLaunch]
    /\ info = default
    /\ out = <<>>
    /\ row = 0

\* ---- format_uptime(seconds)

MaxDays == 2

HourSamples == {0, 1, 2, 23}

MinuteSamples == {0, 1, 2, 59}

SecondSamples == {0, 1, 59}

UptimeInputs ==
    {d * SecondsPerDay + h * SecondsPerHour + m * SecondsPerMinute + sec :
        d \in 0..MaxDays, h \in HourSamples, m \in MinuteSamples,
        sec \in SecondSamples}

UptimeInit ==
    /\ BareHost
    /\ target_os = "linux"
    /\ file = [n \in Files |-> ReadErr]
    /\ pc = "format_uptime"
    /\ arg \in UptimeInputs
    /\ ret = NoCall

Call_format_uptime ==
    /\ pc = "format_uptime"
    /\ ret' = format_uptime(arg)
    /\ pc' = "returned"
    /\ UNCHANGED <<world, info, out, row, arg>>

SpecUptime == UptimeInit /\ [][Call_format_uptime]_vars

\* ---- format_bytes_gib(bytes), called on two byte counts in turn

MaxEighths == 12

\* multiples of an eighth of a GiB (ties of the rounding among them), the
\* counts around 0.005 GiB, the examples of the specification, counts beyond
\* 2^53 (which f64 does not hold exactly) and u64::MAX
ByteInputs ==
    {BigOfInt(k * (GiB \div 8)) : k \in 0..MaxEighths}
        \cup {BigOfInt(k) : k \in {1, 5368709, 5368710, 1073741824, 1610612736}}
        \cup {BigFromDec(t) : t \in {"6000000000", "8000000000",
                                     "9007199254740993",
                                     "486266745001837855",
                                     "18446744073709551615"}}

BytesInit ==
    /\ BareHost
    /\ target_os = "linux"
    /\ file = [n \in Files |-> ReadErr]
    /\ pc = "format_bytes_gib"
    /\ arg \in ByteInputs \X ByteInputs
    /\ ret = <<>>

Call_format_bytes_gib ==
    /\ pc = "format_bytes_gib"
    /\ ret' = Append(ret, format_bytes_gib(arg[Len(ret) + 1]))
    /\ pc' = IF Len(ret) + 1 = Len(arg) THEN "returned" ELSE pc
    /\ UNCHANGED <<world, info, out, row, arg>>

SpecBytes == BytesInit /\ [][Call_format_bytes_gib]_vars

\* ---- get_memory_info() on a /proc/meminfo with the given value words

MaxKb == 100

\* 2^54 kB is the least value whose count of bytes does not fit in 64 bits;
\* 2^64 is the least value that is no u64
SpecialWords ==
    {"1953125", "7812500", "16384000", "18014398509481983",
     "18014398509481984", "18446744073709551615", "18446744073709551616",
     "+7", "-5", "lots", ""}

TotalWords == {"0", "1", "3", ToString(MaxKb)} \cup SpecialWords

AvailableWords == {ToString(k) : k \in 0..MaxKb} \cup SpecialWords

\* a key that is absent from the file, or present with a value word
MemArgs ==
    [total : {None} \cup {Some(w) : w \in TotalWords},
     available : {None} \cup {Some(w) : w \in AvailableWords}]

meminfo_line(key, word) ==
    IF word.some THEN key \o ":" \o repeat(" ", 8) \o word.val \o " kB\n" ELSE ""

meminfo_text(a) ==
    meminfo_line("MemTotal", a.total) \o "MemFree:          512 kB\n"
        \o meminfo_line("MemAvailable", a.available) \o "Buffers\n"

MemoryInit ==
    /\ BareHost
    /\ target_os = "linux"
    /\ pc = "get_memory_info"
    /\ arg \in MemArgs
    /\ file = [n \in Files |->
                  IF n = "/proc/meminfo" THEN ReadOk(meminfo_text(arg)) ELSE ReadErr]
    /\ ret = NoCall

Call_get_memory_info ==
    /\ pc = "get_memory_info"
    /\ ret' = get_memory_info
    /\ pc' = "returned"
    /\ UNCHANGED <<world, info, out, row, arg>>

SpecMemory == MemoryInit /\ [][Call_get_memory_info]_vars

-----------------------------------------------------------------------------
(* Properties.  What follows states the behaviour expected of the program  *)
(* and reads the program's results as texts; it calls none of the          *)
(* operations above.                                                       *)

IsDecimal(s) == s # "" /\ \A k \in 1..Len(s) : Char(s, k) \in Digits

\* digits, a point, two digits, " GiB"
IsGiB(text) ==
    LET n == Len(text)
    IN  /\ n >= 8
        /\ SubSeq(text, n - 3, n) = " GiB"
        /\ Char(text, n - 6) = "."
        /\ IsDecimal(SubSeq(text, 1, n - 7))
        /\ IsDecimal(SubSeq(text, n - 5, n - 4))

\* the number of hundredths such a text shows
HundredthsOf(text) ==
    LET n == Len(text)
    IN  BigFromDec(SubSeq(text, 1, n - 7) \o SubSeq(text, n - 5, n - 4))

BigDistance(a, b) == IF BigCmp(a, b) >= 0 THEN BigSub(a, b) ELSE BigSub(b, a)

\* "used / total (p%)": two sizes and a whole percentage
SummaryParts(text) ==
    LET slash == find(text, "/")
        open == find(text, "(")
    IN  [used |-> SubSeq(text, 1, slash - 2),
         total |-> SubSeq(text, slash + 2, open - 2),
         percent |-> SubSeq(text, open + 1, Len(text) - 2),
         shaped |-> /\ slash > 2
                    /\ open > slash + 3
                    /\ SubSeq(text, slash - 1, slash + 1) = " / "
                    /\ Char(text, open - 1) = " "
                    /\ Len(text) >= open + 3
                    /\ SubSeq(text, Len(text) - 1, Len(text)) = "%)"]

IsSummary(text) ==
    LET parts == SummaryParts(text)
    IN  /\ parts.shaped
        /\ IsGiB(parts.used)
        /\ IsGiB(parts.total)
        /\ IsDecimal(parts.percent)

\* C3: format_uptime(s) lists, in the order days, hours, minutes and joined
\* by ", ", exactly the units among days = s div 86400, hours = (s mod 86400)
\* div 3600 and minutes = (s mod 3600) div 60 whose count is not zero; a unit
\* word ends in "s" exactly when its count is not 1; the result is "less than
\* a minute" exactly when s < 60; 0 and 59 give "less than a minute", 60 gives
\* "1 min", 3661 gives "1 hour, 1 min", 90000 gives "1 day, 1 hour".
C3_format_uptime ==
    pc = "returned" =>
        LET s == arg
            count == <<s \div 86400, (s % 86400) \div 3600, (s % 3600) \div 60>>
            word == <<"day", "hour", "min">>
            listed == SelectSeq(<<1, 2, 3>>, LAMBDA u : count[u] # 0)
            unit(u) == ToString(count[u]) \o " " \o word[u]
                           \o (IF count[u] # 1 THEN "s" ELSE "")
            text(k) == unit(listed[k])
            expected ==
                IF Len(listed) = 0 THEN "less than a minute"
                ELSE IF Len(listed) = 1 THEN text(1)
                ELSE IF Len(listed) = 2 THEN text(1) \o ", " \o text(2)
                ELSE text(1) \o ", " \o text(2) \o ", " \o text(3)
        IN  /\ ret = expected
            /\ (ret = "less than a minute") <=> (s < 60)
            /\ s \in {0, 59} => ret = "less than a minute"
            /\ s = 60 => ret = "1 min"
            /\ s = 3661 => ret = "1 hour, 1 min"
            /\ s = 90000 => ret = "1 day, 1 hour"

C3_witness ==
    /\ pc = "returned"
    /\ arg = 2 * 86400 + 3600 + 2 * 60 + 59
    /\ ret = "2 days, 1 hour, 2 mins"

\* C5: format_bytes_gib(b) is b / 2^30 written with exactly two decimals and
\* " GiB": the number written is less than 0.01 away from b / 2^30, and at
\* most 0.005 away where b is below 2^53; 1073741824 gives "1.00 GiB",
\* 1610612736 gives "1.50 GiB"; of two byte counts the larger never shows
\* the smaller number.
C5_format_bytes_gib ==
    /\ \A i \in 1..Len(ret) :
        LET b == arg[i]
            distance == BigDistance(BigShl(HundredthsOf(ret[i]), 30),
                                    BigMulSmall(b, 100, 0))
        IN  /\ IsGiB(ret[i])
            /\ BigCmp(distance, BigOfInt(2^30)) < 0
            /\ BigCmp(b, BigShl(<<1>>, 53)) < 0
                   => BigCmp(distance, BigOfInt(2^29)) <= 0
            /\ b = BigOfInt(1073741824) => ret[i] = "1.00 GiB"
            /\ b = BigOfInt(1610612736) => ret[i] = "1.50 GiB"
    /\ Len(ret) = 2 /\ BigCmp(arg[1], arg[2]) <= 0
           => BigCmp(HundredthsOf(ret[1]), HundredthsOf(ret[2])) <= 0

C5_witness ==
    /\ pc = "returned"
    /\ arg = <<BigOfInt(1610612736), BigFromDec("486266745001837855")>>
    /\ ret = <<"1.50 GiB", "452871196.90 GiB">>

\* C4: for total > 0 and 0 <= available <= total read from /proc/meminfo,
\* the percentage of the memory summary is the whole number
\* floor(used * 100 / total) with used = total - available, never rounded
\* up, and lies within 0..100; total = 8000000000 and available = 2000000000
\* give 75.
C4_percentage_is_floor ==
    pc = "returned" /\ arg.total.some /\ arg.available.some
        /\ IsDecimal(arg.total.val) /\ IsDecimal(arg.available.val) =>
        LET total == BigMulSmall(BigFromDec(arg.total.val), 1024, 0)
            available == BigMulSmall(BigFromDec(arg.available.val), 1024, 0)
            used == BigSub(total, available)
            floor == BigDivRem(BigMulSmall(used, 100, 0), total).q
        IN  Len(total) <= 4 /\ total # <<>> /\ BigCmp(available, total) <= 0 =>
                /\ ~ret.panic
                /\ IsSummary(ret.val)
                /\ BigFromDec(SummaryParts(ret.val).percent) = floor
                /\ BigCmp(floor, <<100>>) <= 0
                /\ total = BigFromDec("8000000000")
                       /\ available = BigFromDec("2000000000")
                       => SummaryParts(ret.val).percent = "75"

\* the example of the specification, where the percentage is the floor
C4_witness ==
    /\ pc = "returned"
    /\ arg = [total |-> Some("7812500"), available |-> Some("1953125")]
    /\ ret = Value("5.59 GiB / 7.45 GiB (75%)")

\* C10: get_memory_info never fails: whatever /proc/meminfo holds
\* (MemAvailable above MemTotal, MemTotal 0, missing keys, values that are
\* no numbers, values whose count of bytes does not fit in 64 bits), it
\* returns "unknown" or a summary "used / total (p%)" with 0 <= p <= 100 and
\* used no larger than total; it never aborts.
C10_memory_never_fails ==
    pc = "returned" =>
        /\ ~ret.panic
        /\ \/ ret.val = "unknown"
           \/ /\ IsSummary(ret.val)
              /\ BigCmp(BigFromDec(SummaryParts(ret.val).percent), <<100>>) <= 0
              /\ BigCmp(HundredthsOf(SummaryParts(ret.val).used),
                        HundredthsOf(SummaryParts(ret.val).total)) <= 0

\* MemAvailable above MemTotal
C10_witness ==
    /\ pc = "returned"
    /\ arg = [total |-> Some("3"), available |-> Some("16384000")]

\* ---- the snapshot and the rows printed

Probes == {ProbeOrder[k] : k \in 1..Len(ProbeOrder)}

ListProbes == {"get_display_info", "get_gpu_info", "get_disk_info"}

\* the statement that calls p is done
Returned(p) ==
    \/ pc \in {"display_info", "rows", "done"}
    \/ pc \in Probes /\ position(pc) > position(p)
    \/ pc = "panicked" /\ position(p) < position("get_memory_info")

\* what the call of p put into the snapshot
Result(p) ==
    CASE p = "username" -> info.username
      [] p = "get_hostname" -> info.hostname
      [] p = "get_os_info" -> info.os
      [] p = "get_host_info" -> info.host
      [] p = "get_kernel_version" -> info.kernel
      [] p = "get_uptime" -> info.uptime
      [] p = "get_packages" -> info.packages
      [] p = "get_shell" -> info.shell
      [] p = "get_display_info" -> info.display
      [] p = "get_desktop_environment" -> info.de
      [] p = "get_window_manager" -> info.wm
      [] p = "get_wm_theme" -> info.wm_theme
      [] p = "get_icons" -> info.icons
      [] p = "get_font" -> info.font
      [] p = "get_cursor" -> info.cursor
      [] p = "get_terminal" -> info.terminal
      [] p = "get_cpu_info" -> info.cpu
      [] p = "get_gpu_info" -> info.gpu
      [] p = "get_memory_info" -> info.memory
      [] p = "get_swap_info" -> info.swap
      [] p = "get_disk_info" -> info.disk
      [] p = "get_local_ip" -> info.local_ip
      [] p = "get_battery_info" -> info.battery
      [] p = "get_locale" -> info.locale

\* C1: every probe called by gather_system_info returns a non-empty string,
\* or a non-empty list of strings, on every platform and whatever data
\* sources are absent, failing or present.
C1_probes_return_nonempty ==
    \A p \in Probes :
        Returned(p) =>
            IF p \in ListProbes
            THEN /\ Len(Result(p)) > 0
                 /\ \A k \in 1..Len(Result(p)) : Result(p)[k] # ""
            ELSE Result(p) # ""

\* every variable unset, no file readable, every program either not
\* launchable or printing nothing
AllSourcesFail ==
    /\ \A n \in EnvNames : env[n].kind = "unset"
    /\ \A f \in Files : ~file[f].ok
    /\ \A c \in Commands :
           \/ proc[c].kind = "nolaunch"
           \/ proc[c].kind = "exit" /\ proc[c].stdout = ""

Fallbacks ==
    {"unknown", "Unknown GPU", "Unknown disk", "No battery detected", "No swap",
     "No active network connection"}

\* C2: when every data source fails, the run completes without crashing and
\* every field of the snapshot (every entry, for a list) is one of the
\* fallback strings "unknown", "Unknown GPU", "Unknown disk", "No battery
\* detected", "No swap", "No active network connection".
C2_all_fail_gives_fallbacks ==
    AllSourcesFail =>
        /\ pc # "panicked"
        /\ \A p \in Probes :
               Returned(p) =>
                   IF p \in ListProbes
                   THEN \A k \in 1..Len(Result(p)) : Result(p)[k] \in Fallbacks
                   ELSE Result(p) \in Fallbacks

\* the program cannot be launched, exits with a status other than 0, or
\* prints only white space
FailedRun(c) ==
    \/ proc[c].kind = "nolaunch"
    \/ proc[c].kind = "exit" /\ proc[c].status # 0
    \/ proc[c].kind = "exit"
           /\ \A k \in 1..Len(proc[c].stdout) : Char(proc[c].stdout, k) \in White

\* the probes that run one program, on the platforms where they run it, with
\* the value each returns when that program gave nothing
Placeholders ==
    LET on(os, p, c, v) == [os |-> os, probe |-> p, cmd |-> c, value |-> v]
        win == {"windows"}
    IN  {on(Platforms \ win, "get_hostname", "hostname", "unknown"),
         on(Platforms \ win, "get_kernel_version", "uname -r", "unknown"),
         on(win, "get_os_info", Powershell("os"), target_os \o " " \o arch),
         on(win, "get_host_info", Powershell("host"), "Unknown"),
         on(win, "get_kernel_version", Powershell("kernel"), "unknown"),
         on(win, "get_uptime", Powershell("uptime"), "unknown"),
         on(win, "get_window_manager", Powershell("wm"), "Desktop Window Manager"),
         on(win, "get_wm_theme", Powershell("theme"), "unknown"),
         on(win, "get_cpu_info", Powershell("cpu"),
            "Unknown (" \o ToString(ncpus) \o " cores)"),
         on(win, "get_gpu_info", Powershell("gpu"), <<"Unknown GPU">>),
         on(win, "get_memory_info", Powershell("memory"), "unknown"),
         on(win, "get_swap_info", Powershell("swap"), "unknown"),
         on(win, "get_disk_info", Powershell("disk"), <<"Unknown disk">>),
         on(win, "get_local_ip", Powershell("ip"), "unknown"),
         on(win, "get_battery_info", Powershell("battery"), "No battery detected")}

\* C6: for every probe that runs a program, each failure of the program
\* (it cannot be launched, it exits with a status other than 0, it prints
\* nothing usable) makes the probe return its placeholder; the text of a
\* program that exits with a status other than 0 is not used.
C6_failed_run_gives_placeholder ==
    \A e \in Placeholders :
        target_os \in e.os /\ Returned(e.probe) /\ FailedRun(e.cmd)
            => Result(e.probe) = e.value

\* the chains of variables, by probe
Chain(p) ==
    CASE p = "username" -> <<"USER", "USERNAME">>
      [] p = "get_shell" -> <<"SHELL", "ComSpec">>
      [] p = "get_desktop_environment" -> <<"XDG_CURRENT_DESKTOP", "DESKTOP_SESSION">>
      [] p = "get_window_manager" -> <<"XDG_SESSION_TYPE">>
      [] p = "get_terminal" -> <<"TERM_PROGRAM", "TERMINAL_EMULATOR">>
      [] p = "get_locale" -> <<"LANG">>

ChainProbes ==
    {"username", "get_shell", "get_desktop_environment", "get_window_manager",
     "get_terminal", "get_locale"}

\* what follows the last "/" or "\" of a path
AfterLastSeparator(s) ==
    LET at == {k \in 1..Len(s) : Char(s, k) \in {"/", "\\"}}
    IN  IF at = {} THEN s
        ELSE SubSeq(s, (CHOOSE k \in at : \A j \in at : j <= k) + 1, Len(s))

\* the value a variable supplies to p
Supplied(p, v) == IF p = "get_shell" THEN AfterLastSeparator(v) ELSE v

\* the variables of the chain of p that count as present, in order
Present(p, kinds) == SelectSeq(Chain(p), LAMBDA n : env[n].kind \in kinds)

\* the program cannot be launched or prints only white space
PrintsNothing(c) ==
    \/ proc[c].kind = "nolaunch"
    \/ proc[c].kind = "exit"
           /\ \A k \in 1..Len(proc[c].stdout) : Char(proc[c].stdout, k) \in White

\* p takes its value from the environment on this host
ConsultsEnv(p) ==
    CASE p \in {"username", "get_terminal"} -> TRUE
      [] p \in {"get_desktop_environment", "get_window_manager"} ->
             target_os # "windows"
      [] p = "get_shell" ->
             target_os # "windows" \/ PrintsNothing(Powershell("psversion"))
      [] p = "get_locale" ->
             target_os # "windows" \/ PrintsNothing(Powershell("culture"))

Codes == {RESET, GREEN, YELLOW, BLUE, BOLD}

\* the colour codes that stand at position k of s
CodesAt(s, k) ==
    {c \in Codes : k + Len(c) - 1 <= Len(s) /\ SubSeq(s, k, k + Len(c) - 1) = c}

\* s without its colour codes
RECURSIVE Uncoloured(_)
Uncoloured(s) ==
    LET k == find(s, Char(RESET, 1))
        code == CHOOSE c \in CodesAt(s, k) : TRUE
    IN  IF k = 0 THEN s
        ELSE IF CodesAt(s, k) # {}
        THEN SubSeq(s, 1, k - 1) \o Uncoloured(SubSeq(s, k + Len(code), Len(s)))
        ELSE SubSeq(s, 1, k) \o Uncoloured(SubSeq(s, k + 1, Len(s)))

\* s without the colour codes it starts with
RECURSIVE AfterCodes(_)
AfterCodes(s) ==
    IF CodesAt(s, 1) = {} THEN s
    ELSE AfterCodes(SubSeq(s, Len(CHOOSE c \in CodesAt(s, 1) : TRUE) + 1, Len(s)))

\* a text that starts coloured: what is printed up to the first RESET, and
\* what is printed after it
Span(s) ==
    LET body == AfterCodes(s)
        ends == {k \in 1..Len(body) : RESET \in CodesAt(body, k)}
        end == CHOOSE k \in ends : \A j \in ends : k <= j
    IN  IF body = s \/ ends = {}
        THEN [starts |-> FALSE, coloured |-> "", plain |-> s]
        ELSE [starts |-> TRUE,
              coloured |-> SubSeq(body, 1, end - 1),
              plain |-> SubSeq(body, end + Len(RESET), Len(body))]

\* row i of the output, rows counted from 0, after the empty first line
Row(i) == out[i + 2]

\* the width of the logo column of row i with its colour codes
LogoColumnLen(i) ==
    IF i < Len(LOGO) THEN Len(BLUE) + 40 + Len(RESET) ELSE 40

\* what row i shows to the right of the logo column
InfoPart(i) == SubSeq(Row(i), LogoColumnLen(i) + 1, Len(Row(i)))

\* C8: display_info prints exactly max(logo line count, info line count)
\* rows; row i is logo line i padded with spaces to 40 columns when i is
\* below the logo height and 40 spaces otherwise, followed by info line i
\* when i is below the info line count and nothing otherwise; so no line of
\* either column is dropped or printed twice, whatever the lengths of the
\* display, gpu and disk lists.
C8_rows_are_max_of_columns ==
    pc = "done" =>
        LET rows == IF Len(LOGO) >= Len(info_lines) THEN Len(LOGO)
                    ELSE Len(info_lines)
            logo(i) == IF i < Len(LOGO)
                       THEN LOGO[i + 1] \o repeat(" ", 40 - Len(LOGO[i + 1]))
                       ELSE repeat(" ", 40)
            text(i) == IF i < Len(info_lines) THEN info_lines[i + 1] ELSE ""
        IN  /\ Len(out) = rows + 2
            /\ out[1] = "" /\ out[Len(out)] = ""
            /\ \A i \in 0..(rows - 1) : Uncoloured(Row(i)) = logo(i) \o text(i)

\* more info lines than logo lines: three GPUs and two disks
C8_witness ==
    /\ pc = "done"
    /\ Len(info.gpu) = 3
    /\ Len(info.disk) = 2
    /\ Len(out) = Len(LOGO) + 6
    /\ Uncoloured(Row(Len(LOGO))) = repeat(" ", 40) \o info_lines[Len(LOGO) + 1]

\* C9: of an info line at row 2 or below that has a colon, the text up to
\* and including the first colon is printed coloured as the label and what
\* follows that colon is printed after it unchanged, so that the row without
\* its colour codes is the line; a line without a colon is printed as it is;
\* rows 0 and 1 are printed as one coloured text, never split, also when the
\* username or hostname has a colon.
C9_label_with_colon_is_coloured ==
    pc = "done" =>
        \A i \in 0..(row - 1) :
            i < Len(info_lines) =>
                LET line == info_lines[i + 1]
                    colon == find(line, ":")
                    span == Span(InfoPart(i))
                IN  /\ Uncoloured(InfoPart(i)) = line
                    /\ i \in {0, 1} =>
                           span.starts /\ span.coloured = line /\ span.plain = ""
                    /\ i >= 2 /\ colon = 0 => InfoPart(i) = line
                    /\ i >= 2 /\ colon # 0 =>
                           /\ span.starts
                           /\ span.coloured = SubSeq(line, 1, colon)
                           /\ span.plain = SubSeq(line, colon + 1, Len(line))

\* a header with a colon in the username, and a disk line with two colons
C9_witness ==
    /\ pc = "done"
    /\ info.username = "a:b"
    /\ \E i \in 2..(row - 1) :
           /\ i < Len(info_lines)
           /\ Span(InfoPart(i)).coloured = "Disk (1:"
    /\ Span(InfoPart(0)).coloured = info_lines[1]

\* C9 as stated: of an info line at row 2 or below that has a colon, only
\* the text before the first colon is printed coloured, and the colon and
\* what follows it are printed after it unchanged; a line without a colon is
\* printed as it is; rows 0 and 1 are never split.
C9_only_label_is_coloured ==
    pc = "done" =>
        \A i \in 0..(row - 1) :
            i < Len(info_lines) =>
                LET line == info_lines[i + 1]
                    colon == find(line, ":")
                    span == Span(InfoPart(i))
                IN  /\ Uncoloured(InfoPart(i)) = line
                    /\ i \in {0, 1} =>
                           span.starts /\ span.coloured = line /\ span.plain = ""
                    /\ i >= 2 /\ colon = 0 => InfoPart(i) = line
                    /\ i >= 2 /\ colon # 0 =>
                           /\ span.starts
                           /\ span.coloured = SubSeq(line, 1, colon - 1)
                           /\ span.plain = SubSeq(line, colon, Len(line))

\* ---- the run as a whole

\* every program the run may start exits, and every file read returns
AllInvocationsReturn == \A c \in Commands : proc[c].kind # "hang"

Rendering == pc \in {"display_info", "rows", "done"}

\* control moves from the statement of one probe to the statement of the
\* next in gather_system_info, and from the last one to display_info
StepInOrder ==
    pc \in Probes /\ pc' # pc =>
        IF position(pc) < Len(ProbeOrder)
        THEN pc' = ProbeOrder[position(pc) + 1]
        ELSE pc' = "display_info"

C11_probes_in_order == [][StepInOrder]_vars

\* a field of the snapshot is written by the statement of its own probe only
StepWritesOwnField ==
    \A p \in Probes : Result(p)' # Result(p) => pc = p /\ pc' # p

C11_one_field_per_probe == [][StepWritesOwnField]_vars

\* nothing is printed before the last probe has returned
C11_no_output_before_last_probe == out # <<>> => Returned("get_locale")

\* the snapshot does not change once rendering has begun
C11_snapshot_frozen == [][Rendering => info' = info]_vars

\* control is at a statement of main whose invocations return
Running ==
    \/ pc \in Probes /\ ~blocked(pc)
    \/ pc = "display_info"
    \/ pc = "rows" /\ row <= max_lines

\* when every invocation returns, the run is at a statement that goes on, or
\* it has finished with all rows printed: it stops nowhere else
C11_terminates_when_all_return ==
    AllInvocationsReturn =>
        \/ Running
        \/ pc = "done" /\ Len(out) = max_lines + 2

\* a probe whose program never exits stops the run there, nothing printed
C11_hang_blocks ==
    pc \in Probes /\ blocked(pc) => out = <<>> /\ ~ENABLED Next

\* C11: in every run each probe is invoked exactly once, in the order of
\* gather_system_info, each finishing before the next starts; no row is
\* printed before the last probe has returned; the snapshot is not modified
\* once rendering has begun; if every external invocation returns, the run
\* goes on until all rows are printed and then terminates; a probe whose
\* subprocess never returns blocks the run for ever with nothing printed.
C11_run_of_main ==
    /\ C11_probes_in_order
    /\ C11_one_field_per_probe
    /\ []C11_no_output_before_last_probe
    /\ C11_snapshot_frozen
    /\ []C11_terminates_when_all_return
    /\ []C11_hang_blocks

\* every invocation has returned, and the run has stopped in the memory
\* probe with nothing printed
C11_witness ==
    /\ AllInvocationsReturn
    /\ pc = "panicked"
    /\ out = <<>>
    /\ ~ENABLED Next

====
